---- MODULE Spec2Model ----
(***************************************************************************)
(* Inventory service: item records and their photo files in the cache      *)
(* directory, under the two servers of the repository:                     *)
(*   backend = "file"  src/main.js          (records in data.json)         *)
(*   backend = "sql"   src/unnamed/part_000 (records in the items table)   *)
(* A request is one slot of req.  A synchronous stretch of handler code is *)
(* one action; every await (a pool.query round trip) and the multer upload *)
(* that precedes a multipart handler end an action, so other requests      *)
(* interleave exactly there.                                               *)
(***************************************************************************)
EXTENDS Integers, Sequences, FiniteSets, TLC

\* backend, cacheAtDirname: which server runs and how it was started
\* connect: the startup check of part_000 (connectWithRetry)
\* inventories, items, files: data.json, the items table, the cache directory
\* createdIds, deletedIds: the identifiers a 201 of POST /register and a 200
\*   of DELETE /inventory/:id have answered for (history)
VARIABLES backend, cacheAtDirname, connect, inventories, items, files,
          nextId, nextKey, createdIds, deletedIds, req, response

vars == <<backend, cacheAtDirname, connect, inventories, items, files,
          nextId, nextKey, createdIds, deletedIds, req, response>>

(* ---------------------------------------------------------------- bounds *)
\* identifiers uuidv4 hands out in one run
MaxItems == 2
\* files multer stores in one run
MaxUploads == 2
\* requests in flight at the same time
MaxInFlight == 2

(* ---------------------------------------------------------------- values *)
\* JavaScript null, the photo of an item registered without a file
NULL == 0
\* a body field that was not sent
UNDEFINED == "undefined"

Slots == 1..MaxInFlight
Ids == 1..MaxItems
Keys == 1..MaxUploads
Names == {"a", "b"}
Descriptions == {"x"}
\* what a client may send as inventory_name and as description
NameFields == {UNDEFINED, ""} \cup Names
\* the inventory_name values sent to POST /register
RegisterNames == {UNDEFINED, "", "a"}
\* the description values sent to POST /register
RegisterDescs == {UNDEFINED, "x"}
DescFields == {UNDEFINED, ""} \cup Descriptions

\* JavaScript truthiness of a body field: undefined and "" are falsy
Truthy(v) == v # UNDEFINED /\ v # ""

\* description stored as it came, without || ""
AsSent(v) == v

\* description || ""
OrEmpty(v) == IF Truthy(v) THEN v ELSE ""

Item(id, name, desc, photo) ==
  [id |-> id, inventory_name |-> name, description |-> desc, photo |-> photo]

Idle ==
  [op |-> "idle", pc |-> "idle", id |-> 0, inventory_name |-> UNDEFINED,
   description |-> UNDEFINED, file |-> NULL, rows |-> <<>>, query |-> <<>>,
   args |-> <<>>]

\* res.status(s).json(b): b is <<>> for a message or undefined, <<item>> for an item
Reply(op, status, body) == [op |-> op, status |-> status, body |-> body]

\* response is what the step just taken sent, NoReply when it sent nothing
NoReply == Reply("none", 0, <<>>)

(* ------------------------------------------------------------ generators *)
\* an identifier taken from the number of stored items: free again after a delete
uuidv4Count ==
  (IF backend = "file" THEN Len(inventories) ELSE Cardinality(items)) + 1

\* uuidv4(): a fresh identifier at every call
uuidv4 == nextId

\* storage.filename: fieldname-Date.now()-random+ext, a fresh name at every upload
filename == nextKey

(* ------------------------------------------------- data.json (main.js) *)
\* a read that returns the document as it was before its last item was written
readDataStale ==
  IF Len(inventories) > 0 THEN SubSeq(inventories, 1, Len(inventories) - 1) ELSE <<>>

readData == inventories

\* allItems.findIndex(item => item.id === id)
findIndex(allItems, id) ==
  IF \E i \in 1..Len(allItems) : allItems[i].id = id
  THEN CHOOSE i \in 1..Len(allItems) :
         /\ allItems[i].id = id
         /\ \A j \in 1..(i - 1) : allItems[j].id # id
  ELSE -1

\* allItems.splice(findIndex, 1)
splice(allItems, i) ==
  [j \in 1..(Len(allItems) - 1) |-> IF j < i THEN allItems[j] ELSE allItems[j + 1]]

(* ------------------------------------------------ items table (part_000) *)
\* SELECT * FROM items WHERE id = ?
SelectFrom(table, id) ==
  IF \E row \in table : row.id = id
  THEN <<CHOOSE row \in table : row.id = id>>
  ELSE <<>>

SelectById(id) == SelectFrom(items, id)

\* SELECT photo FROM items WHERE id = ?
SelectPhotoById(id) ==
  [k \in 1..Len(SelectById(id)) |-> [photo |-> SelectById(id)[k].photo]]

\* SELECT id FROM items WHERE id = ?
SelectIdById(id) ==
  [k \in 1..Len(SelectById(id)) |-> [id |-> SelectById(id)[k].id]]

\* INSERT INTO items (id, inventory_name, description, photo) VALUES (?, ?, ?, ?)
Insert(row) == items \cup {row}

\* DELETE FROM items WHERE id = ?
DeleteById(id) == {row \in items : row.id # id}

\* UPDATE items SET <query columns> = <args> WHERE id = ?
Assign(row, query, args) ==
  [col \in DOMAIN row |->
     IF \E k \in 1..Len(query) : query[k] = col
     THEN args[CHOOSE k \in 1..Len(query) : query[k] = col]
     ELSE row[col]]

\* an UPDATE without its WHERE id = ?
UpdateAll(table, id, query, args) ==
  {Assign(row, query, args) : row \in table}

UpdateById(table, id, query, args) ==
  {IF row.id = id THEN Assign(row, query, args) ELSE row : row \in table}

(* ------------------------------------------------------------------ views *)
\* the records a client can read, whichever the backend
Records ==
  IF backend = "file" THEN {inventories[i] : i \in 1..Len(inventories)} ELSE items

\* the requests in flight once request r has been answered: req lists them
\* without gaps
Release(r) ==
  [s \in Slots |-> IF s < r THEN req[s] ELSE IF s < MaxInFlight THEN req[s + 1] ELSE Idle]

\* no item, no photo file, no request
InitStore ==
  /\ inventories = <<>>
  /\ items = {}
  /\ files = {}
  /\ nextId = 1
  /\ nextKey = 1
  /\ createdIds = {}
  /\ deletedIds = {}
  /\ req = [r \in Slots |-> Idle]
  /\ response = NoReply

\* connectWithRetry() has run up to its first await
Started ==
  [pc |-> "getConnection", retries |-> 0, attempts |-> 0, waited |-> 0,
   console |-> <<>>]

\* connectWithRetry() has returned after a first attempt that succeeded
Connected ==
  [pc |-> "done", retries |-> 0, attempts |-> 1, waited |-> 0,
   console |-> <<[text |-> "Connected to MySQL", retries |-> 0, code |-> ""]>>]

\* either server as the Dockerfile starts it (node main.js -c cache in the
\* directory of main.js), the startup check of part_000 over
Init ==
  /\ backend \in {"file", "sql"}
  /\ cacheAtDirname = TRUE
  /\ connect = Connected
  /\ InitStore

\* a new request takes the first free slot (the slots are interchangeable)
Free(r) == req[r].op = "idle" /\ \A s \in Slots : s < r => req[s].op # "idle"

\* accepted registrations in flight, each of which will draw an identifier
Pending ==
  Cardinality({s \in Slots : req[s].op = "register" /\ Truthy(req[s].inventory_name)})

(* ---------------------------------------------------------------- multer *)
\* an upload that hands the name to the handler without having written the file
UploadSingleUnwritten(r) ==
  /\ Free(r)
  /\ \E op \in {"register", "putPhoto"}, hasFile \in BOOLEAN, id \in Ids,
        name \in RegisterNames, desc \in RegisterDescs :
       /\ op = "register" => id = 1
       /\ op = "register" /\ Truthy(name) => nextId + Pending <= MaxItems
       /\ op = "putPhoto" => name = UNDEFINED /\ desc = UNDEFINED
       /\ hasFile => nextKey <= MaxUploads
       /\ req' = [req EXCEPT ![r] =
            [Idle EXCEPT !.op = op, !.pc = "handler",
                         !.id = IF op = "putPhoto" THEN id ELSE 0,
                         !.inventory_name = name, !.description = desc,
                         !.file = IF hasFile THEN filename ELSE NULL]]
       /\ nextKey' = IF hasFile THEN nextKey + 1 ELSE nextKey
  /\ response' = NoReply
  /\ UNCHANGED <<backend, cacheAtDirname, connect, inventories, items, files,
                 nextId, createdIds, deletedIds>>

\* upload.single("photo") of POST /register and PUT /inventory/:id/photo: the
\* body is parsed and the file part, when there is one, is written to the cache
\* directory under a new name before the handler runs
UploadSingle(r) ==
  /\ Free(r)
  /\ \E op \in {"register", "putPhoto"}, hasFile \in BOOLEAN, id \in Ids,
        name \in RegisterNames, desc \in RegisterDescs :
       /\ op = "register" => id = 1
       /\ op = "register" /\ Truthy(name) => nextId + Pending <= MaxItems
       /\ op = "putPhoto" => name = UNDEFINED /\ desc = UNDEFINED
       /\ hasFile => nextKey <= MaxUploads
       /\ req' = [req EXCEPT ![r] =
            [Idle EXCEPT !.op = op, !.pc = "handler",
                         !.id = IF op = "putPhoto" THEN id ELSE 0,
                         !.inventory_name = name, !.description = desc,
                         !.file = IF hasFile THEN filename ELSE NULL]]
       /\ files' = IF hasFile THEN files \cup {filename} ELSE files
       /\ nextKey' = IF hasFile THEN nextKey + 1 ELSE nextKey
  /\ response' = NoReply
  /\ UNCHANGED <<backend, cacheAtDirname, connect, inventories, items,
                 nextId, createdIds, deletedIds>>

\* upload.single("photo") when storage.filename gives a name it gave before:
\* the name is Date.now() and Math.round(Math.random() * 1e9), which nothing
\* keeps apart from the names of earlier uploads, and multer writes the file
\* under it without testing whether one is there
UploadSameName(r) ==
  /\ Free(r)
  /\ \E op \in {"register", "putPhoto"}, id \in Ids, key \in 1..(nextKey - 1),
        name \in RegisterNames, desc \in RegisterDescs :
       /\ op = "register" => id = 1
       /\ op = "register" /\ Truthy(name) => nextId + Pending <= MaxItems
       /\ op = "putPhoto" => name = UNDEFINED /\ desc = UNDEFINED
       /\ req' = [req EXCEPT ![r] =
            [Idle EXCEPT !.op = op, !.pc = "handler",
                         !.id = IF op = "putPhoto" THEN id ELSE 0,
                         !.inventory_name = name, !.description = desc,
                         !.file = key]]
       /\ files' = files \cup {key}
  /\ response' = NoReply
  /\ UNCHANGED <<backend, cacheAtDirname, connect, inventories, items,
                 nextId, nextKey, createdIds, deletedIds>>

\* upload.single("photo") when the file cannot be written to the cache
\* directory: multer removes what it wrote and passes the error on, express
\* answers 500 and the handler does not run
UploadFails(op) ==
  /\ \E r \in Slots : Free(r)
  /\ nextKey <= MaxUploads
  /\ response' = Reply(op, 500, <<>>)
  /\ UNCHANGED <<backend, cacheAtDirname, connect, inventories, items, files,
                 nextId, nextKey, createdIds, deletedIds, req>>


(* ------------------------------------------------- handlers of main.js *)
\* A handler of main.js runs to its end without an await.  ok is the outcome of
\* its writeData: fs.writeFileSync throws when the disk refuses the write, and
\* express answers 500 for a throwing handler, as it does for a throwing
\* fs.unlinkSync of a file that is not there.

\* what the handler of app.post("/register") makes of data.json, the identifier
\* uuidv4() gives it and its request, file being req.file.filename or null
postRegister(allItems, id, inventory_name, description, file) ==
  LET newInventory == Item(id, inventory_name, OrEmpty(description), file)
  IN IF ~Truthy(inventory_name)
     THEN [inventories |-> allItems, response |-> Reply("register", 400, <<>>)]
     ELSE [inventories |-> Append(allItems, newInventory),
           response |-> Reply("register", 201, <<newInventory>>)]

\* app.post("/register", upload.single("photo"), ...)
PostRegisterFile(r, ok) ==
  /\ backend = "file"
  /\ req[r].op = "register" /\ req[r].pc = "handler"
  /\ LET done == postRegister(readData, uuidv4, req[r].inventory_name,
                              req[r].description, req[r].file)
     IN IF done.response.status = 400
        THEN /\ response' = done.response
             /\ UNCHANGED <<inventories, nextId, createdIds>>
        ELSE /\ nextId' = nextId + 1
             /\ IF ok
                THEN /\ inventories' = done.inventories
                     /\ createdIds' = createdIds \cup {done.response.body[1].id}
                     /\ response' = done.response
                ELSE /\ response' = Reply("register", 500, <<>>)
                     /\ UNCHANGED <<inventories, createdIds>>
  /\ req' = Release(r)
  /\ UNCHANGED <<backend, cacheAtDirname, connect, items, files, nextKey,
                 deletedIds>>

\* a patch that tests the fields against undefined only: "" overwrites
PatchItemPresent(item, inventory_name, description) ==
  [item EXCEPT
     !.inventory_name = IF inventory_name # UNDEFINED THEN inventory_name ELSE @,
     !.description = IF description # UNDEFINED THEN description ELSE @]

\* the patch of app.put("/inventory/:id"): only truthy fields overwrite
PatchItem(item, inventory_name, description) ==
  [item EXCEPT
     !.inventory_name = IF Truthy(inventory_name) THEN inventory_name ELSE @,
     !.description = IF Truthy(description) THEN description ELSE @]

\* what the handler of app.put("/inventory/:id") makes of data.json and its
\* request: the document it writes and the answer it sends
putInventory(allItems, id, inventory_name, description) ==
  LET findIdx == findIndex(allItems, id)
      patched == [allItems EXCEPT ![findIdx] = PatchItem(@, inventory_name, description)]
  IN IF findIdx # -1
     THEN [inventories |-> patched, response |-> Reply("update", 200, <<patched[findIdx]>>)]
     ELSE [inventories |-> allItems, response |-> Reply("update", 404, <<>>)]

\* app.put("/inventory/:id", ...)
PutInventoryFile(id, inventory_name, description, ok) ==
  /\ backend = "file"
  /\ LET done == putInventory(readData, id, inventory_name, description)
     IN IF ok \/ done.response.status = 404
        THEN /\ inventories' = done.inventories
             /\ response' = done.response
        ELSE /\ response' = Reply("update", 500, <<>>)
             /\ UNCHANGED inventories
  /\ UNCHANGED <<backend, cacheAtDirname, connect, items, files, nextId,
                 nextKey, createdIds, req, deletedIds>>

\* a delete handler without the findIndex test: allItems.splice(-1, 1) takes the
\* last item of the document away
DeleteInventoryFileNoCheck(id, ok) ==
  /\ backend = "file"
  /\ LET allItems == readData
         findIdx == findIndex(allItems, id)
         i == IF findIdx = -1 THEN Len(allItems) ELSE findIdx
     IN IF i > 0
        THEN /\ files' = files \ {allItems[i].photo}
             /\ inventories' = splice(allItems, i)
             /\ response' = Reply("delete", 200, <<>>)
        ELSE /\ response' = Reply("delete", 200, <<>>)
             /\ UNCHANGED <<inventories, files>>
  /\ deletedIds' = deletedIds \cup {id}
  /\ UNCHANGED <<backend, cacheAtDirname, connect, items, nextId, nextKey,
                 createdIds, req>>

\* what the handler of app.delete("/inventory/:id") makes of data.json and the
\* cache directory: fs.unlinkSync throws ENOENT (500) for a photo that is not
\* there, otherwise the photo is unlinked, the item spliced out, the document
\* written
deleteInventory(allItems, fs, id) ==
  LET findIdx == findIndex(allItems, id)
      photo == allItems[findIdx].photo
  IN IF findIdx = -1
     THEN [inventories |-> allItems, files |-> fs,
           response |-> Reply("delete", 404, <<>>)]
     ELSE IF photo # NULL /\ photo \notin fs
     THEN [inventories |-> allItems, files |-> fs,
           response |-> Reply("delete", 500, <<>>)]
     ELSE [inventories |-> splice(allItems, findIdx), files |-> fs \ {photo},
           response |-> Reply("delete", 200, <<>>)]

\* app.delete("/inventory/:id", ...): the unlink comes before writeData, so it
\* stays done when writeData throws
DeleteInventoryFile(id, ok) ==
  /\ backend = "file"
  /\ LET done == deleteInventory(readData, files, id)
     IN /\ files' = done.files
        /\ IF ok \/ done.response.status # 200
           THEN /\ inventories' = done.inventories
                /\ response' = done.response
           ELSE /\ response' = Reply("delete", 500, <<>>)
                /\ UNCHANGED inventories
  /\ deletedIds' = IF response'.status = 200 THEN deletedIds \cup {id} ELSE deletedIds
  /\ UNCHANGED <<backend, cacheAtDirname, connect, items, nextId, nextKey,
                 createdIds, req>>

\* what the handler of app.put("/inventory/:id/photo") makes of data.json and
\* the cache directory, file being req.file.filename or null
putPhoto(allItems, fs, id, file) ==
  LET findIdx == findIndex(allItems, id)
      oldPhotoName == allItems[findIdx].photo
      updated == [allItems EXCEPT ![findIdx].photo = file]
  IN IF file = NULL
     THEN [inventories |-> allItems, files |-> fs,
           response |-> Reply("putPhoto", 400, <<>>)]
     ELSE IF findIdx = -1
     THEN [inventories |-> allItems, files |-> fs,
           response |-> Reply("putPhoto", 404, <<>>)]
     ELSE IF oldPhotoName # NULL /\ oldPhotoName \notin fs
     THEN [inventories |-> allItems, files |-> fs,
           response |-> Reply("putPhoto", 500, <<>>)]
     ELSE [inventories |-> updated, files |-> fs \ {oldPhotoName},
           response |-> Reply("putPhoto", 200, <<updated[findIdx]>>)]

\* app.put("/inventory/:id/photo", upload.single("photo"), ...): the unlink of
\* the old photo comes before writeData
PutPhotoFile(r, ok) ==
  /\ backend = "file"
  /\ req[r].op = "putPhoto" /\ req[r].pc = "handler"
  /\ LET done == putPhoto(readData, files, req[r].id, req[r].file)
     IN /\ files' = done.files
        /\ IF ok \/ done.response.status # 200
           THEN /\ inventories' = done.inventories
                /\ response' = done.response
           ELSE /\ response' = Reply("putPhoto", 500, <<>>)
                /\ UNCHANGED inventories
  /\ req' = Release(r)
  /\ UNCHANGED <<backend, cacheAtDirname, connect, items, nextId, nextKey,
                 createdIds, deletedIds>>

\* `${req.protocol}://${req.get("host")}/inventory/${item.id}/photo`
photoUrl(id) == "http://host/inventory/" \o ToString(id) \o "/photo"

\* photo_url: item.photo ? <the url> : null
photo_url(item) == IF item.photo # NULL THEN photoUrl(item.id) ELSE "null"

\* fs.existsSync(path.join(__dirname, options.cache, photo)): the file is looked
\* for under the directory of the script, which is the cache directory only
\* when options.cache is relative and the server was started there
existsAtDirname(fs, photo) == cacheAtDirname /\ photo \in fs

\* allItems.find(item => item.id === id), as a list of at most one item
find(allItems, id) ==
  IF findIndex(allItems, id) # -1 THEN <<allItems[findIndex(allItems, id)]>> ELSE <<>>

\* app.get("/inventory", ...)
getInventoryList(allItems) ==
  Reply("list", 200,
        [i \in 1..Len(allItems) |->
           [id |-> allItems[i].id, inventory_name |-> allItems[i].inventory_name,
            description |-> allItems[i].description,
            photo_url |-> photo_url(allItems[i])]])

\* app.get("/inventory/:id", ...): { ...findItem, photo_url }
getInventory(allItems, id) ==
  LET findItem == find(allItems, id)
  IN IF Len(findItem) > 0
     THEN Reply("get", 200,
                <<[id |-> findItem[1].id, inventory_name |-> findItem[1].inventory_name,
                   description |-> findItem[1].description, photo |-> findItem[1].photo,
                   photo_url |-> photo_url(findItem[1])]>>)
     ELSE Reply("get", 404, <<>>)

\* app.get("/inventory/:id/photo", ...): res.sendFile(photoPath) is a 200 whose
\* body is the file
getPhoto(allItems, fs, id) ==
  LET findItem == find(allItems, id)
  IN IF Len(findItem) > 0 /\ findItem[1].photo # NULL
        /\ existsAtDirname(fs, findItem[1].photo)
     THEN Reply("photo", 200, <<findItem[1].photo>>)
     ELSE Reply("photo", 404, <<>>)

\* a search that appends the note whether or not the item has a photo
postSearchAlways(allItems, id, has_photo) ==
  LET findItem == find(allItems, id)
  IN IF Len(findItem) > 0
     THEN Reply("search", 200,
                <<[findItem[1] EXCEPT !.description =
                     IF has_photo
                     THEN @ \o "\nPosylannia na foto: " \o photoUrl(findItem[1].id)
                     ELSE @]>>)
     ELSE Reply("search", 404, <<>>)

\* app.post("/search", ...): itemToSend = { ...findItem }, its description
\* followed by the note when has_photo && itemToSend.photo (the note of main.js
\* is in Ukrainian, written here in Latin letters)
postSearch(allItems, id, has_photo) ==
  LET findItem == find(allItems, id)
  IN IF Len(findItem) > 0
     THEN Reply("search", 200,
                <<[findItem[1] EXCEPT !.description =
                     IF has_photo /\ findItem[1].photo # NULL
                     THEN @ \o "\nPosylannia na foto: " \o photoUrl(findItem[1].id)
                     ELSE @]>>)
     ELSE Reply("search", 404, <<>>)

\* a handler of main.js that only reads: it answers and changes nothing
AnswerFile(answer) ==
  /\ backend = "file"
  /\ response' = answer
  /\ UNCHANGED <<backend, cacheAtDirname, connect, inventories, items, files,
                 nextId, nextKey, createdIds, deletedIds, req>>

GetInventoryListFile == AnswerFile(getInventoryList(readData))

GetInventoryFile(id) == AnswerFile(getInventory(readData, id))

GetPhotoFile(id) == AnswerFile(getPhoto(readData, files, id))

PostSearchFile(id, has_photo) == AnswerFile(postSearch(readData, id, has_photo))

(* ------------------------------------------------ handlers of part_000 *)
\* Every await pool.query(...) ends an action: the action that follows runs the
\* statement on the table and the handler's code up to its next await.  ok is
\* the outcome of the statement: a rejected query lands in the handler's catch,
\* which answers 500.

Fail(r, op) ==
  /\ response' = Reply(op, 500, <<>>)
  /\ req' = Release(r)

\* if (photo) { if (fs.existsSync(fullPath)) fs.unlinkSync(fullPath) }
unlinkIfExists(fs, photo) ==
  IF photo # NULL /\ photo \in fs THEN fs \ {photo} ELSE fs

\* app.post("/register", upload.single("photo"), async ...)
PostRegisterSql(r, ok) ==
  /\ backend = "sql"
  /\ req[r].op = "register" /\ req[r].pc = "handler"
  /\ LET inventory_name == req[r].inventory_name
         newId == uuidv4
         photo == req[r].file
         row == Item(newId, inventory_name, OrEmpty(req[r].description), photo)
     IN IF ~Truthy(inventory_name)
        THEN /\ response' = Reply("register", 400, <<>>)
             /\ UNCHANGED <<items, nextId, createdIds>>
        ELSE /\ nextId' = nextId + 1
             /\ IF ok /\ SelectById(newId) = <<>>
                THEN /\ items' = Insert(row)
                     /\ createdIds' = createdIds \cup {newId}
                     /\ response' = Reply("register", 201, <<row>>)
                ELSE \* the query is rejected (a duplicate primary key included)
                     /\ response' = Reply("register", 500, <<>>)
                     /\ UNCHANGED <<items, createdIds>>
  /\ req' = Release(r)
  /\ UNCHANGED <<backend, cacheAtDirname, connect, inventories, files,
                 nextKey, deletedIds>>

\* the UPDATE statement app.put("/inventory/:id") builds: its SET columns (of
\* "UPDATE items SET <column> = ?, ... WHERE id = ?") and its arguments
buildUpdate(id, inventory_name, description) ==
  [query |-> (IF Truthy(inventory_name) THEN <<"inventory_name">> ELSE <<>>)
             \o (IF Truthy(description) THEN <<"description">> ELSE <<>>),
   args |-> (IF Truthy(inventory_name) THEN <<inventory_name>> ELSE <<>>)
            \o (IF Truthy(description) THEN <<description>> ELSE <<>>)
            \o <<id>>]

\* the handler of app.put("/inventory/:id") up to its second await: the answer
\* it sends (status 0: none yet) and the statement it goes on with
selectAndBuild(id, inventory_name, description) ==
  LET exists == SelectIdById(id)
      upd == buildUpdate(id, inventory_name, description)
  IN IF Len(exists) = 0
     THEN [status |-> 404, pc |-> "idle", query |-> <<>>, args |-> <<>>]
     ELSE IF Len(upd.args) > 1
     THEN [status |-> 0, pc |-> "UPDATE", query |-> upd.query, args |-> upd.args]
     ELSE [status |-> 0, pc |-> "SELECT", query |-> <<>>, args |-> <<>>]

\* app.put("/inventory/:id", async ...): SELECT id, then the UPDATE is built
PutInventorySelect(r, id, inventory_name, description, ok) ==
  /\ backend = "sql"
  /\ Free(r)
  /\ LET first == selectAndBuild(id, inventory_name, description)
     IN IF ~ok
        THEN /\ response' = Reply("update", 500, <<>>)
             /\ UNCHANGED req
        ELSE IF first.status = 404
        THEN /\ response' = Reply("update", 404, <<>>)
             /\ UNCHANGED req
        ELSE /\ req' = [req EXCEPT ![r] =
                  [Idle EXCEPT !.op = "update", !.id = id, !.pc = first.pc,
                               !.query = first.query, !.args = first.args]]
             /\ response' = NoReply
  /\ UNCHANGED <<backend, cacheAtDirname, connect, inventories, items, files,
                 nextId, nextKey, createdIds, deletedIds>>

\* await pool.query(query, args); query and args are not read afterwards
PutInventoryUpdate(r, ok) ==
  /\ backend = "sql"
  /\ req[r].op = "update" /\ req[r].pc = "UPDATE"
  /\ IF ok
     THEN /\ items' = UpdateById(items, req[r].id, req[r].query, req[r].args)
          /\ req' = [req EXCEPT ![r].pc = "SELECT", ![r].query = <<>>, ![r].args = <<>>]
          /\ response' = NoReply
     ELSE /\ Fail(r, "update")
          /\ UNCHANGED items
  /\ UNCHANGED <<backend, cacheAtDirname, connect, inventories, files,
                 nextId, nextKey, createdIds, deletedIds>>

\* SELECT * FROM items WHERE id = ?; res.json(rows[0])
PutInventoryRespond(r, ok) ==
  /\ backend = "sql"
  /\ req[r].op = "update" /\ req[r].pc = "SELECT"
  /\ IF ok
     THEN /\ response' = Reply("update", 200, SelectById(req[r].id))
          /\ req' = Release(r)
     ELSE Fail(r, "update")
  /\ UNCHANGED <<backend, cacheAtDirname, connect, inventories, items, files,
                 nextId, nextKey, createdIds, deletedIds>>

\* app.delete("/inventory/:id", async ...): SELECT photo
DeleteSelect(r, id, ok) ==
  /\ backend = "sql"
  /\ Free(r)
  /\ LET rows == SelectPhotoById(id)
     IN IF ~ok
        THEN /\ response' = Reply("delete", 500, <<>>)
             /\ UNCHANGED req
        ELSE IF Len(rows) = 0
        THEN /\ response' = Reply("delete", 404, <<>>)
             /\ UNCHANGED req
        ELSE /\ req' = [req EXCEPT ![r] =
                  [Idle EXCEPT !.op = "delete", !.id = id, !.pc = "DELETE",
                               !.rows = rows]]
             /\ response' = NoReply
  /\ UNCHANGED <<backend, cacheAtDirname, connect, inventories, items, files,
                 nextId, nextKey, createdIds, deletedIds>>

\* await pool.query("DELETE FROM items WHERE id = ?", [id])
DeleteExec(r, ok) ==
  /\ backend = "sql"
  /\ req[r].op = "delete" /\ req[r].pc = "DELETE"
  /\ IF ok
     THEN /\ items' = DeleteById(req[r].id)
          /\ req' = [req EXCEPT ![r].pc = "unlink"]
          /\ response' = NoReply
     ELSE /\ Fail(r, "delete")
          /\ UNCHANGED items
  /\ UNCHANGED <<backend, cacheAtDirname, connect, inventories, files,
                 nextId, nextKey, createdIds, deletedIds>>

\* if (photo) { if (fs.existsSync(fullPath)) fs.unlinkSync(fullPath) }; res.json
DeleteUnlink(r) ==
  /\ backend = "sql"
  /\ req[r].op = "delete" /\ req[r].pc = "unlink"
  /\ files' = unlinkIfExists(files, req[r].rows[1].photo)
  /\ response' = Reply("delete", 200, <<>>)
  /\ deletedIds' = deletedIds \cup {req[r].id}
  /\ req' = Release(r)
  /\ UNCHANGED <<backend, cacheAtDirname, connect, inventories, items,
                 nextId, nextKey, createdIds>>

\* app.put("/inventory/:id/photo", upload.single("photo"), async ...): SELECT photo
PutPhotoSelect(r, ok) ==
  /\ backend = "sql"
  /\ req[r].op = "putPhoto" /\ req[r].pc = "handler"
  /\ IF req[r].file = NULL
     THEN /\ response' = Reply("putPhoto", 400, <<>>)
          /\ req' = Release(r)
     ELSE IF ok
     THEN /\ req' = [req EXCEPT ![r].pc = "checked", ![r].rows = SelectPhotoById(req[r].id)]
          /\ response' = NoReply
     ELSE Fail(r, "putPhoto")
  /\ UNCHANGED <<backend, cacheAtDirname, connect, inventories, items, files,
                 nextId, nextKey, createdIds, deletedIds>>

\* the code between the SELECT and the UPDATE without the removal of the old photo
PutPhotoCheckKeepsOld(r) ==
  /\ backend = "sql"
  /\ req[r].op = "putPhoto" /\ req[r].pc = "checked"
  /\ IF Len(req[r].rows) = 0
     THEN /\ files' = files \ {req[r].file}
          /\ response' = Reply("putPhoto", 404, <<>>)
          /\ req' = Release(r)
     ELSE /\ req' = [req EXCEPT ![r].pc = "UPDATE"]
          /\ response' = NoReply
          /\ UNCHANGED files
  /\ UNCHANGED <<backend, cacheAtDirname, connect, inventories, items,
                 nextId, nextKey, createdIds, deletedIds>>

\* the code between the SELECT and the UPDATE: the upload is removed again when
\* the item is unknown, the old photo is removed when its file is there
PutPhotoCheck(r) ==
  /\ backend = "sql"
  /\ req[r].op = "putPhoto" /\ req[r].pc = "checked"
  /\ LET rows == req[r].rows
     IN IF Len(rows) = 0
        THEN /\ files' = files \ {req[r].file}
             /\ response' = Reply("putPhoto", 404, <<>>)
             /\ req' = Release(r)
        ELSE /\ files' = unlinkIfExists(files, rows[1].photo)
             /\ req' = [req EXCEPT ![r].pc = "UPDATE"]
             /\ response' = NoReply
  /\ UNCHANGED <<backend, cacheAtDirname, connect, inventories, items,
                 nextId, nextKey, createdIds, deletedIds>>

\* await pool.query("UPDATE items SET photo = ? WHERE id = ?", ...); rows is
\* not read afterwards
PutPhotoUpdate(r, ok) ==
  /\ backend = "sql"
  /\ req[r].op = "putPhoto" /\ req[r].pc = "UPDATE"
  /\ IF ok
     THEN /\ items' = UpdateById(items, req[r].id, <<"photo">>,
                                    <<req[r].file, req[r].id>>)
          /\ req' = [req EXCEPT ![r].pc = "SELECT", ![r].rows = <<>>]
          /\ response' = NoReply
     ELSE /\ Fail(r, "putPhoto")
          /\ UNCHANGED items
  /\ UNCHANGED <<backend, cacheAtDirname, connect, inventories, files,
                 nextId, nextKey, createdIds, deletedIds>>

\* SELECT * FROM items WHERE id = ?; res.json(updated[0])
PutPhotoRespond(r, ok) ==
  /\ backend = "sql"
  /\ req[r].op = "putPhoto" /\ req[r].pc = "SELECT"
  /\ IF ok
     THEN /\ response' = Reply("putPhoto", 200, SelectById(req[r].id))
          /\ req' = Release(r)
     ELSE Fail(r, "putPhoto")
  /\ UNCHANGED <<backend, cacheAtDirname, connect, inventories, items, files,
                 nextId, nextKey, createdIds, deletedIds>>

\* SELECT * FROM items, the rows in the order of the primary key
SelectAll(table) ==
  LET ids == {row.id : row \in table}
      Sorted == CHOOSE seq \in [1..Cardinality(ids) -> ids] :
                  \A i, j \in 1..Cardinality(ids) : i < j => seq[i] < seq[j]
  IN [i \in 1..Cardinality(ids) |-> CHOOSE row \in table : row.id = Sorted[i]]

\* app.get("/inventory", async ...): rows.map(...)
getInventoryListSql(rows) ==
  Reply("list", 200,
        [i \in 1..Len(rows) |->
           [id |-> rows[i].id, inventory_name |-> rows[i].inventory_name,
            description |-> rows[i].description, photo_url |-> photo_url(rows[i])]])

\* app.get("/inventory/:id", async ...): rows[0] with photo_url set
getInventorySql(rows) ==
  IF Len(rows) = 0
  THEN Reply("get", 404, <<>>)
  ELSE Reply("get", 200,
             <<[id |-> rows[1].id, inventory_name |-> rows[1].inventory_name,
                description |-> rows[1].description, photo |-> rows[1].photo,
                photo_url |-> photo_url(rows[1])]>>)

\* app.get("/inventory/:id/photo", async ...), from the rows of its SELECT on
getPhotoSql(rows, fs) ==
  IF Len(rows) = 0 \/ rows[1].photo = NULL
  THEN Reply("photo", 404, <<>>)
  ELSE IF ~existsAtDirname(fs, rows[1].photo)
  THEN Reply("photo", 404, <<>>)
  ELSE Reply("photo", 200, <<rows[1].photo>>)

\* app.post("/search", async ...): item.description += `\nPhoto: ${url}`
postSearchSql(rows, has_photo) ==
  IF Len(rows) = 0
  THEN Reply("search", 404, <<>>)
  ELSE Reply("search", 200,
             <<[rows[1] EXCEPT !.description =
                  IF has_photo /\ rows[1].photo # NULL
                  THEN @ \o "\nPhoto: " \o photoUrl(rows[1].id)
                  ELSE @]>>)

\* a handler of part_000 with one query, which it only reads: the query is
\* run and answered for, or rejected (500)
AnswerSql(op, answer, ok) ==
  /\ backend = "sql"
  /\ response' = IF ok THEN answer ELSE Reply(op, 500, <<>>)
  /\ UNCHANGED <<backend, cacheAtDirname, connect, inventories, items, files,
                 nextId, nextKey, createdIds, deletedIds, req>>

GetInventoryListSql(ok) == AnswerSql("list", getInventoryListSql(SelectAll(items)), ok)

GetInventorySql(id, ok) == AnswerSql("get", getInventorySql(SelectById(id)), ok)

PostSearchSql(id, has_photo, ok) ==
  AnswerSql("search", postSearchSql(SelectById(id), has_photo), ok)

\* app.get("/inventory/:id/photo", async ...): SELECT photo
GetPhotoSelect(r, id, ok) ==
  /\ backend = "sql"
  /\ Free(r)
  /\ IF ok
     THEN /\ req' = [req EXCEPT ![r] =
               [Idle EXCEPT !.op = "photo", !.id = id, !.pc = "exists",
                            !.rows = SelectPhotoById(id)]]
          /\ response' = NoReply
     ELSE /\ response' = Reply("photo", 500, <<>>)
          /\ UNCHANGED req
  /\ UNCHANGED <<backend, cacheAtDirname, connect, inventories, items, files,
                 nextId, nextKey, createdIds, deletedIds>>

\* the code after the SELECT: 404, fs.existsSync(file), res.sendFile(file)
GetPhotoRespond(r) ==
  /\ backend = "sql"
  /\ req[r].op = "photo" /\ req[r].pc = "exists"
  /\ response' = getPhotoSql(req[r].rows, files)
  /\ req' = Release(r)
  /\ UNCHANGED <<backend, cacheAtDirname, connect, inventories, items, files,
                 nextId, nextKey, createdIds, deletedIds>>

(* ------------------------------- handlers of part_000, one request alone *)
\* What a handler of part_000 makes of the table and the cache directory when
\* no other request runs between its awaits and no statement is rejected: its
\* statements in the order of the code, each on the table the one before left.

\* app.post("/register", ...): INSERT, res.status(201).json({...})
postRegisterSql(table, newId, inventory_name, description, photo) ==
  LET row == Item(newId, inventory_name, OrEmpty(description), photo)
  IN IF ~Truthy(inventory_name)
     THEN [items |-> table, response |-> Reply("register", 400, <<>>)]
     ELSE IF SelectFrom(table, newId) # <<>>
     THEN [items |-> table, response |-> Reply("register", 500, <<>>)]
     ELSE [items |-> table \cup {row}, response |-> Reply("register", 201, <<row>>)]

\* app.put("/inventory/:id", ...): SELECT id, UPDATE if (args.length > 1),
\* SELECT *, res.json(rows[0])
putInventorySql(table, id, inventory_name, description) ==
  LET upd == buildUpdate(id, inventory_name, description)
      updated == IF Len(upd.args) > 1
                 THEN UpdateById(table, id, upd.query, upd.args) ELSE table
  IN IF Len(SelectFrom(table, id)) = 0
     THEN [items |-> table, response |-> Reply("update", 404, <<>>)]
     ELSE [items |-> updated,
           response |-> Reply("update", 200, SelectFrom(updated, id))]

\* app.delete("/inventory/:id", ...): SELECT photo, DELETE, unlink if the file
\* exists, res.json
deleteInventorySql(table, fs, id) ==
  LET rows == SelectFrom(table, id)
  IN IF Len(rows) = 0
     THEN [items |-> table, files |-> fs, response |-> Reply("delete", 404, <<>>)]
     ELSE [items |-> {row \in table : row.id # id},
           files |-> unlinkIfExists(fs, rows[1].photo),
           response |-> Reply("delete", 200, <<>>)]

\* app.put("/inventory/:id/photo", ...): SELECT photo, unlink of the upload
\* (404) or of the old photo if its file exists, UPDATE, SELECT *, res.json
putPhotoSql(table, fs, id, file) ==
  LET rows == SelectFrom(table, id)
      updated == UpdateById(table, id, <<"photo">>, <<file, id>>)
  IN IF file = NULL
     THEN [items |-> table, files |-> fs, response |-> Reply("putPhoto", 400, <<>>)]
     ELSE IF Len(rows) = 0
     THEN [items |-> table, files |-> fs \ {file},
           response |-> Reply("putPhoto", 404, <<>>)]
     ELSE [items |-> updated, files |-> unlinkIfExists(fs, rows[1].photo),
           response |-> Reply("putPhoto", 200, SelectFrom(updated, id))]

(* ------------------------------------------ connectWithRetry (part_000) *)
\* const maxRetries = 5
maxRetries == 5
\* setTimeout(res, 5000): the delay between two attempts, in milliseconds
retryDelay == 5000
\* err.code of a rejected pool.getConnection()
ErrCodes == {"ECONNREFUSED", "ETIMEDOUT"}

\* a line of the console: console.log("Connected to MySQL") or
\* console.error(`MySQL error (${retries}/${maxRetries}):`, err.code)
Line(text, retries, code) == [text |-> text, retries |-> retries, code |-> code]

\* a loop that sets the timer after every rejection, the last one included
GetConnectionThenWait(ok, code) ==
  /\ connect.pc = "getConnection"
  /\ ok => code = ""
  /\ ~ok => code \in ErrCodes
  /\ connect' =
       IF ok
       THEN [connect EXCEPT !.pc = "done", !.attempts = @ + 1,
                            !.console = Append(@, Line("Connected to MySQL", connect.retries, ""))]
       ELSE LET retries == connect.retries + 1
            IN [connect EXCEPT
                  !.retries = retries, !.attempts = @ + 1,
                  !.console = Append(@, Line("MySQL error", retries, code)),
                  !.pc = "setTimeout"]
  /\ UNCHANGED <<backend, cacheAtDirname, inventories, items, files, nextId,
                 nextKey, createdIds, deletedIds, req, response>>

\* await pool.getConnection() settles: on success the function returns; on a
\* rejection retries is counted up and either the timer is set or, the while
\* test failing, the function returns
GetConnection(ok, code) ==
  /\ connect.pc = "getConnection"
  /\ ok => code = ""
  /\ ~ok => code \in ErrCodes
  /\ connect' =
       IF ok
       THEN [connect EXCEPT !.pc = "done", !.attempts = @ + 1,
                            !.console = Append(@, Line("Connected to MySQL", connect.retries, ""))]
       ELSE LET retries == connect.retries + 1
            IN [connect EXCEPT
                  !.retries = retries, !.attempts = @ + 1,
                  !.console = Append(@, Line("MySQL error", retries, code)),
                  !.pc = IF retries < maxRetries THEN "setTimeout" ELSE "done"]
  /\ UNCHANGED <<backend, cacheAtDirname, inventories, items, files, nextId,
                 nextKey, createdIds, deletedIds, req, response>>

\* the timer of await new Promise((res) => setTimeout(res, 5000)) fires and the
\* while test (retries < maxRetries) is made again
Timeout ==
  /\ connect.pc = "setTimeout"
  /\ connect' = [connect EXCEPT !.waited = @ + retryDelay,
                                !.pc = IF connect.retries < maxRetries
                                       THEN "getConnection" ELSE "done"]
  /\ UNCHANGED <<backend, cacheAtDirname, inventories, items, files, nextId,
                 nextKey, createdIds, deletedIds, req, response>>

(* --------------------------------------------------------- specifications *)
\* the operations of main.js, with the writeData outcomes of the set Ok
StepFile(Ok) ==
  \/ \E r \in Slots, ok \in Ok : PostRegisterFile(r, ok)
  \/ \E id \in Ids, n \in NameFields, d \in DescFields, ok \in Ok :
       PutInventoryFile(id, n, d, ok)
  \/ \E id \in Ids, ok \in Ok : DeleteInventoryFile(id, ok)
  \/ \E r \in Slots, ok \in Ok : PutPhotoFile(r, ok)

\* the operations of part_000, with the pool.query outcomes of the set Ok
StepSql(Ok) ==
  \/ \E r \in Slots, ok \in Ok : PostRegisterSql(r, ok)
  \/ \E r \in Slots, id \in Ids, n \in NameFields, d \in DescFields, ok \in Ok :
       PutInventorySelect(r, id, n, d, ok)
  \/ \E r \in Slots, ok \in Ok : PutInventoryUpdate(r, ok)
  \/ \E r \in Slots, ok \in Ok : PutInventoryRespond(r, ok)
  \/ \E r \in Slots, id \in Ids, ok \in Ok : DeleteSelect(r, id, ok)
  \/ \E r \in Slots, ok \in Ok : DeleteExec(r, ok)
  \/ \E r \in Slots : DeleteUnlink(r)
  \/ \E r \in Slots, ok \in Ok : PutPhotoSelect(r, ok)
  \/ \E r \in Slots : PutPhotoCheck(r)
  \/ \E r \in Slots, ok \in Ok : PutPhotoUpdate(r, ok)
  \/ \E r \in Slots, ok \in Ok : PutPhotoRespond(r, ok)

Upload == \E r \in Slots : UploadSingle(r)

\* either server, its storage never failing
Next == Upload \/ StepFile({TRUE}) \/ StepSql({TRUE})

Spec == Init /\ [][Next]_vars

\* main.js on a disk that may refuse a write: writeData may throw
InitFile == Init /\ backend = "file"

NextFault == Upload \/ StepFile(BOOLEAN)

SpecFault == InitFile /\ [][NextFault]_vars


\* either server, started in any directory with any cache path, serving its
\* requests one after the other (no request arrives while one is in flight),
\* on storage that may fail: a write to the disk may throw, a query may be
\* rejected
InitSeq ==
  /\ backend \in {"file", "sql"}
  /\ cacheAtDirname \in BOOLEAN
  /\ connect = Connected
  /\ InitStore

\* no request is in flight
Quiet == \A s \in Slots : req[s].op = "idle"

NextSeq ==
  \/ UploadSingle(1)
  \/ \E op \in {"register", "putPhoto"} : Quiet /\ UploadFails(op)
  \/ \E ok \in BOOLEAN : PostRegisterFile(1, ok)
  \/ \E id \in Ids, n \in NameFields, d \in DescFields, ok \in BOOLEAN :
       Quiet /\ PutInventoryFile(id, n, d, ok)
  \/ \E id \in Ids, ok \in BOOLEAN : Quiet /\ DeleteInventoryFile(id, ok)
  \/ \E ok \in BOOLEAN : PutPhotoFile(1, ok)
  \/ Quiet /\ GetInventoryListFile
  \/ \E id \in Ids : Quiet /\ GetInventoryFile(id)
  \/ \E id \in Ids : Quiet /\ GetPhotoFile(id)
  \/ \E id \in Ids, has_photo \in BOOLEAN : Quiet /\ PostSearchFile(id, has_photo)
  \/ \E ok \in BOOLEAN : PostRegisterSql(1, ok)
  \/ \E id \in Ids, n \in NameFields, d \in DescFields, ok \in BOOLEAN :
       PutInventorySelect(1, id, n, d, ok)
  \/ \E ok \in BOOLEAN : PutInventoryUpdate(1, ok)
  \/ \E ok \in BOOLEAN : PutInventoryRespond(1, ok)
  \/ \E id \in Ids, ok \in BOOLEAN : DeleteSelect(1, id, ok)
  \/ \E ok \in BOOLEAN : DeleteExec(1, ok)
  \/ DeleteUnlink(1)
  \/ \E ok \in BOOLEAN : PutPhotoSelect(1, ok)
  \/ PutPhotoCheck(1)
  \/ \E ok \in BOOLEAN : PutPhotoUpdate(1, ok)
  \/ \E ok \in BOOLEAN : PutPhotoRespond(1, ok)
  \/ \E ok \in BOOLEAN : Quiet /\ GetInventoryListSql(ok)
  \/ \E id \in Ids, ok \in BOOLEAN : Quiet /\ GetInventorySql(id, ok)
  \/ \E id \in Ids, has_photo \in BOOLEAN, ok \in BOOLEAN :
       Quiet /\ PostSearchSql(id, has_photo, ok)
  \/ \E id \in Ids, ok \in BOOLEAN : GetPhotoSelect(1, id, ok)
  \/ GetPhotoRespond(1)

SpecSeq == InitSeq /\ [][NextSeq]_vars

\* main.js serving concurrent requests: a handler whose upload is done is run
\* by the event loop sooner or later
NextFile == Upload \/ StepFile({TRUE})

SpecFile == InitFile /\ [][NextFile]_vars /\ WF_vars(StepFile({TRUE}))

\* one request at a time, the names of the uploads as storage.filename makes
\* them: new ones and ones that were given before
NextNames == NextSeq \/ UploadSameName(1)

SpecNames == InitSeq /\ [][NextNames]_vars

\* part_000 starting: connectWithRetry() alone, every pool.getConnection()
\* settling and every timer firing in the end
InitConnect ==
  /\ backend = "sql"
  /\ cacheAtDirname = TRUE
  /\ connect = Started
  /\ InitStore

NextConnect ==
  \/ \E ok \in BOOLEAN, code \in {""} \cup ErrCodes : GetConnection(ok, code)
  \/ Timeout

SpecConnect == InitConnect /\ [][NextConnect]_vars /\ WF_vars(NextConnect)

(* ----------------------------------------------------------------- claims *)
\* the records with this identifier among recs
Of(recs, id) == {rec \in recs : rec.id = id}

\* the stored record with this identifier, as a set (empty when there is none)
RecordsOf(id) == Of(Records, id)

\* a body field that is present and not empty
Supplied(v) == v # UNDEFINED /\ v # ""

\* the record an Update with these fields has to leave
Expected(rec, n, d) ==
  [rec EXCEPT !.inventory_name = IF Supplied(n) THEN n ELSE @,
              !.description = IF Supplied(d) THEN d ELSE @]

\* no two stored records share an identifier
UniqueIds ==
  IF backend = "file"
  THEN \A i, j \in 1..Len(inventories) : inventories[i].id = inventories[j].id => i = j
  ELSE \A r1, r2 \in items : r1.id = r2.id => r1 = r2

\* the step in which the register handler of request r runs
RegisterStep(r) == \E ok \in BOOLEAN : PostRegisterFile(r, ok) \/ PostRegisterSql(r, ok)

\* C1: every readable record with a non-null photo reference has its photo
\* file in the cache directory, in every reachable state of either backend,
\* the states between the steps of ReplacePhoto and Delete included.
C1_NoDanglingReference ==
  \A rec \in Records : rec.photo # NULL => rec.photo \in files

\* C2: Delete removes the record before the photo file: whenever a step of a
\* Delete takes a photo file away, no stored record points at that file
\* afterwards, also when the operation fails between its two steps.
C2_DeleteRecordBeforeFile ==
  [][response'.op = "delete" =>
       \A f \in files \ files' : \A rec \in Records' : rec.photo # f]_vars

\* C3: a Create whose name is empty or missing is answered 400 and leaves no
\* trace: no record is added and the file it uploaded, if any, is not in the
\* cache directory.
C3_InvalidCreateLeavesNothing ==
  [][response'.op = "register" =>
       \A r \in Slots :
         RegisterStep(r) /\ ~Truthy(req[r].inventory_name) =>
           /\ response'.status = 400
           /\ Records' = Records
           /\ req[r].file \notin files']_vars

\* C4: a ReplacePhoto for an identifier that does not exist is answered 404
\* and its upload is not left in the cache directory, in both backends.
C4_UnknownReplaceLeavesNoFile ==
  [][response'.op = "putPhoto" =>
       \A r \in Slots :
         /\ (\E ok \in BOOLEAN : PutPhotoFile(r, ok)) /\ req[r].file # NULL
              /\ RecordsOf(req[r].id) = {}
            => response'.status = 404 /\ req[r].file \notin files'
         /\ PutPhotoCheck(r) /\ Len(req[r].rows) = 0
            => response'.status = 404 /\ req[r].file \notin files']_vars


\* C5: when a ReplacePhoto on an item that had a photo takes effect, the old
\* photo file is not in the cache directory, the new file is, and the item's
\* record references the new key and not the old one; no record keeps the old key.
C5_ReplaceSwapsPhoto ==
  [][response'.op = "putPhoto" \/ (\E r \in Slots : req[r].pc = "UPDATE") =>
       \A r \in Slots :
         /\ PutPhotoFile(r, TRUE) /\ response'.status = 200 =>
              \A was \in RecordsOf(req[r].id) :
                was.photo # NULL =>
                  /\ was.photo \notin files'
                  /\ req[r].file \in files'
                  /\ Of(Records', req[r].id) = {[was EXCEPT !.photo = req[r].file]}
                  /\ req[r].file # was.photo
                  /\ \A rec \in Records' : rec.photo # was.photo
         /\ PutPhotoUpdate(r, TRUE) /\ RecordsOf(req[r].id) # {} =>
              LET oldPhoto == req[r].rows[1].photo
              IN oldPhoto # NULL =>
                   /\ oldPhoto \notin files'
                   /\ req[r].file \in files'
                   /\ \A rec \in Of(Records', req[r].id) : rec.photo = req[r].file
                   /\ Of(Records', req[r].id) # {}
                   /\ req[r].file # oldPhoto
                   /\ \A rec \in Records' : rec.photo # oldPhoto]_vars

\* C5 witness: main.js has just answered 200 to a ReplacePhoto that installed
\* key 2 on the only item ever created, whose earlier photo, key 1, is gone.
C5_Witness ==
  /\ backend = "file" /\ nextId = 2
  /\ response.op = "putPhoto" /\ response.status = 200
  /\ Len(response.body) = 1 /\ response.body[1].photo = 2
  /\ files = {2}
  /\ Records = {response.body[1]}

\* C6: deleting an item whose photo file is already absent from the cache
\* directory is not an error: the Delete is answered 200 and the record is gone.
C6_DeleteToleratesMissingFile ==
  [][response'.op = "delete" =>
       /\ \A id \in Ids :
            /\ DeleteInventoryFile(id, TRUE)
            /\ \E rec \in RecordsOf(id) : rec.photo # NULL /\ rec.photo \notin files
            => response'.status = 200 /\ Of(Records', id) = {}
       /\ \A r \in Slots :
            /\ DeleteUnlink(r)
            /\ req[r].rows[1].photo # NULL /\ req[r].rows[1].photo \notin files
            => response'.status = 200 /\ Of(Records', req[r].id) = {}]_vars

\* C7: a ReplacePhoto whose old photo file cannot be deleted because it is
\* already missing still succeeds: the record's photo reference becomes the new
\* key and the new key is returned (part_000: the handler goes on to its UPDATE).
C7_ReplaceToleratesMissingOld ==
  [][response'.op = "putPhoto" \/ (\E r \in Slots : req[r].pc = "checked") =>
       \A r \in Slots :
         /\ /\ PutPhotoFile(r, TRUE) /\ req[r].file # NULL
            /\ \E rec \in RecordsOf(req[r].id) : rec.photo # NULL /\ rec.photo \notin files
            => /\ response'.status = 200
               /\ Len(response'.body) = 1 /\ response'.body[1].photo = req[r].file
               /\ \A rec \in Of(Records', req[r].id) : rec.photo = req[r].file
         /\ /\ PutPhotoCheck(r) /\ Len(req[r].rows) > 0
            /\ req[r].rows[1].photo # NULL /\ req[r].rows[1].photo \notin files
            => response' = NoReply /\ req'[r].pc = "UPDATE"]_vars

\* C8: an Update of an existing item sets the name to the supplied name exactly
\* when it is present and not empty, and the description likewise; every other
\* value is left as stored, so an Update with nothing supplied leaves the record
\* as it is and repeating an Update changes nothing more; an Update of an
\* unknown identifier is answered 404 and changes no record.  Stated of what
\* the handler makes of every reachable store and every request.
C8_UpdatePatchesSuppliedFields ==
  \A id \in Ids, n \in NameFields, d \in DescFields :
    IF backend = "file"
    THEN LET done == putInventory(readData, id, n, d)
             after == {done.inventories[i] : i \in 1..Len(done.inventories)}
         IN IF RecordsOf(id) = {}
            THEN done.response.status = 404 /\ done.inventories = inventories
            ELSE \A rec \in RecordsOf(id) :
                   /\ after = (Records \ {rec}) \cup {Expected(rec, n, d)}
                   /\ Len(done.inventories) = Len(inventories)
                   /\ done.response = Reply("update", 200, <<Expected(rec, n, d)>>)
                   /\ putInventory(done.inventories, id, n, d) = done
    ELSE LET first == selectAndBuild(id, n, d)
             UpdateOf(table) ==
               IF first.pc = "UPDATE"
               THEN UpdateById(table, id, first.query, first.args)
               ELSE table
         IN IF RecordsOf(id) = {}
            THEN first.status = 404
            ELSE \A rec \in RecordsOf(id) :
                   /\ first.status = 0
                   /\ UpdateOf(items) = (items \ {rec}) \cup {Expected(rec, n, d)}
                   /\ UpdateOf(UpdateOf(items)) = UpdateOf(items)

\* C8 witness: an Update has just been answered 200 with the name it set
\* (items are registered under the name "a" only).
C8_Witness ==
  /\ response.op = "update" /\ response.status = 200
  /\ Len(response.body) = 1
  /\ response.body[1].inventory_name = "b"
  /\ response.body[1] \in Records

\* C9: every successful Create returns an identifier that no earlier Create
\* returned, deleted items included, and no two stored records ever share an
\* identifier.
C9_IdentifiersNeverReused ==
  [][/\ UniqueIds'
     /\ (response'.op = "register" /\ response'.status = 201) =>
          /\ Len(response'.body) = 1
          /\ response'.body[1].id \notin createdIds
          /\ RecordsOf(response'.body[1].id) = {}
          /\ response'.body[1] \in Records']_vars

\* C9 witness: the second Create has just returned identifier 2 after the item
\* with identifier 1 was deleted.
C9_Witness ==
  /\ response.op = "register" /\ response.status = 201
  /\ response.body[1].id = 2
  /\ createdIds = {1, 2}
  /\ RecordsOf(1) = {}

\* C10: a Delete of an identifier that does not exist is answered 404 and
\* changes neither the records nor the photo files.
C10_DeleteUnknownChangesNothing ==
  [][response'.op = "delete" =>
       /\ \A id \in Ids :
            DeleteInventoryFile(id, TRUE) /\ RecordsOf(id) = {} =>
              response'.status = 404 /\ inventories' = inventories /\ files' = files
       /\ \A r \in Slots, id \in Ids :
            DeleteSelect(r, id, TRUE) /\ RecordsOf(id) = {} =>
              /\ response'.status = 404
              /\ items' = items /\ files' = files /\ req' = req]_vars

\* C10 witness: a Delete has just been answered 404 while a record and a photo
\* file are stored.
C10_Witness ==
  /\ response = Reply("delete", 404, <<>>)
  /\ Records # {}
  /\ files # {}

\* the reads of an identifier all answer 404 and no record carries it
Gone(id) ==
  /\ RecordsOf(id) = {}
  /\ IF backend = "file"
     THEN /\ getInventory(readData, id).status = 404
          /\ getPhoto(readData, files, id).status = 404
          /\ \A has_photo \in BOOLEAN : postSearch(readData, id, has_photo).status = 404
     ELSE /\ getInventorySql(SelectById(id)).status = 404
          /\ getPhotoSql(SelectPhotoById(id), files).status = 404
          /\ \A has_photo \in BOOLEAN :
               postSearchSql(SelectById(id), has_photo).status = 404

\* C11: once a Delete has answered 200 for an identifier, the item is gone for
\* good: no record carries the identifier, Get, FindExact and the photo endpoint
\* answer 404 for it, every Update and ReplacePhoto answered afterwards answers
\* 404, and the Delete leaves the photo file of the record it removed out of the
\* cache directory (part_000: the row it removes has the photo its SELECT read,
\* which is the file it unlinks).
C11_DeleteIsTerminal ==
  [][/\ \A id \in deletedIds : Gone(id)
     /\ (backend = "file" /\ response'.op = "update" /\ response'.status = 200)
          => response'.body[1].id \notin deletedIds
     /\ \A r \in Slots :
          /\ PutInventoryRespond(r, TRUE) /\ req[r].id \in deletedIds
               => response'.status = 404
          /\ (PutPhotoFile(r, TRUE) \/ PutPhotoRespond(r, TRUE))
               /\ req[r].id \in deletedIds /\ req[r].file # NULL
               => response'.status = 404
          /\ DeleteExec(r, TRUE) =>
               \A rec \in RecordsOf(req[r].id) :
                 rec.photo # NULL => rec.photo = req[r].rows[1].photo
          /\ DeleteUnlink(r) => req[r].rows[1].photo \notin files'
     /\ \A id \in Ids :
          DeleteInventoryFile(id, TRUE) /\ response'.status = 200
            => \A rec \in RecordsOf(id) : rec.photo \notin files']_vars

\* the records as main.js holds them (the array of data.json) and as part_000
\* holds them (the rows of items), whichever backend the state is of
Document == IF backend = "file" THEN inventories ELSE SelectAll(items)

RowsOf(allItems) == {allItems[i] : i \in 1..Len(allItems)}

\* the same answer and the same records (f of main.js, s of part_000)
SameOutcome(f, s) ==
  f.response = s.response /\ RowsOf(f.inventories) = s.items

\* C12: on the same records and files, the same request gets the same answer
\* (status and item fields) from main.js and from part_000 and leaves the same
\* records and the same files, for Create, List, Get, Update, ReplacePhoto,
\* Delete, FindExact and the photo endpoint, each handler running alone and
\* the storage not failing
C12_BackendsAgree ==
  LET allItems == Document
      table == Records
  IN /\ Quiet =>
          /\ getInventoryList(allItems) = getInventoryListSql(SelectAll(table))
          /\ \A id \in Ids :
               /\ getInventory(allItems, id) = getInventorySql(SelectFrom(table, id))
               /\ getPhoto(allItems, files, id) = getPhotoSql(SelectFrom(table, id), files)
               /\ \A has_photo \in BOOLEAN :
                    postSearch(allItems, id, has_photo)
                      = postSearchSql(SelectFrom(table, id), has_photo)
               /\ \A n \in NameFields, d \in DescFields :
                    SameOutcome(putInventory(allItems, id, n, d),
                                putInventorySql(table, id, n, d))
               /\ LET f == deleteInventory(allItems, files, id)
                      s == deleteInventorySql(table, files, id)
                  IN SameOutcome(f, s) /\ f.files = s.files
     /\ \A r \in Slots :
          /\ req[r].op = "register" /\ req[r].pc = "handler" =>
               SameOutcome(postRegister(allItems, uuidv4, req[r].inventory_name,
                                        req[r].description, req[r].file),
                           postRegisterSql(table, uuidv4, req[r].inventory_name,
                                           req[r].description, req[r].file))
          /\ req[r].op = "putPhoto" /\ req[r].pc = "handler" =>
               LET f == putPhoto(allItems, files, req[r].id, req[r].file)
                   s == putPhotoSql(table, files, req[r].id, req[r].file)
               IN SameOutcome(f, s) /\ f.files = s.files

\* what Get answers for id in the state at hand
GetAnswer(id) ==
  IF backend = "file" THEN getInventory(readData, id)
  ELSE getInventorySql(SelectById(id))

\* the labels the two servers put between a description and the photo locator
Notes == {"\nPosylannia na foto: ", "\nPhoto: "}

\* C13: a search changes no record and no file; it finds the item exactly when
\* Get does; the item it returns is the stored record, whose description is
\* followed by the photo locator exactly when has_photo is set and the record
\* has a photo; Get answers afterwards what it answered before
C13_SearchIsReadOnly ==
  [][\A id \in Ids, has_photo \in BOOLEAN :
       PostSearchFile(id, has_photo) \/ PostSearchSql(id, has_photo, TRUE) =>
         /\ inventories' = inventories /\ items' = items /\ files' = files
         /\ response'.status = GetAnswer(id).status
         /\ response'.status = 200 =>
              \E rec \in RecordsOf(id) :
                IF has_photo /\ rec.photo # NULL
                THEN \E note \in Notes :
                       response'.body[1] =
                         [rec EXCEPT !.description = @ \o note \o photoUrl(id)]
                ELSE response'.body[1] = rec
         /\ GetAnswer(id)' = GetAnswer(id)]_vars

\* a search has answered with a description longer than the stored one
C13_Witness ==
  /\ response.op = "search" /\ response.status = 200
  /\ \E rec \in Records :
       /\ rec.id = response.body[1].id /\ rec.photo # NULL
       /\ rec.description # response.body[1].description
       /\ GetAnswer(rec.id).body[1].description = rec.description

\* what the photo endpoint answers for id in the state at hand
PhotoAnswer(id) ==
  IF backend = "file" THEN getPhoto(readData, files, id)
  ELSE getPhotoSql(SelectPhotoById(id), files)

\* the item exists, its photo is not null and the file is in the cache directory
PhotoStored(id) == \E rec \in RecordsOf(id) : rec.photo # NULL /\ rec.photo \in files

\* C14: the photo endpoint answers 200 with the photo exactly when the item
\* exists, its photo is not null and the file is in the cache directory, and
\* 404 otherwise; an upload adds exactly one file to the cache directory, and
\* after a Create that succeeded with a photo the endpoint for the new id
\* answers with that file
C14_PhotoEndpoint ==
  [][/\ \A id \in Ids :
          GetPhotoFile(id) =>
            /\ response'.status = (IF PhotoStored(id) THEN 200 ELSE 404)
            /\ response'.status = 200 => response'.body[1] \in files
     /\ \A r \in Slots :
          /\ GetPhotoRespond(r) =>
               response'.status = (IF PhotoStored(req[r].id) THEN 200 ELSE 404)
          /\ UploadSingle(r) /\ req'[r].file # NULL =>
               req'[r].file \notin files /\ files' = files \cup {req'[r].file}
          /\ RegisterStep(r) /\ response'.status = 201
               /\ response'.body[1].photo # NULL =>
               /\ files' = files
               /\ response'.body[1].photo \in files'
               /\ \A id \in Ids, photo \in Keys :
                    response'.body[1].id = id /\ response'.body[1].photo = photo
                      => PhotoAnswer(id)' = Reply("photo", 200, <<photo>>)]_vars

\* C15: when Create has succeeded without a photo, Get with the returned id
\* answers 200 with the name and the description of the request and a null
\* photo; a description that was left out is returned as the empty string
C15_CreateGetRoundTrip ==
  [][\A r \in Slots, id \in Ids :
       RegisterStep(r) /\ response'.status = 201 /\ req[r].file = NULL
         /\ response'.body[1].id = id =>
         LET got == GetAnswer(id)'
         IN /\ got.status = 200
            /\ got.body[1].id = id
            /\ got.body[1].inventory_name = req[r].inventory_name
            /\ got.body[1].description =
                 (IF req[r].description = UNDEFINED THEN "" ELSE req[r].description)
            /\ got.body[1].photo = NULL
            /\ got.body[1].photo_url = "null"]_vars

\* a Create without photo and without description has just succeeded and Get
\* returns the empty description
C15_Witness ==
  /\ response.op = "register" /\ response.status = 201
  /\ response.body[1].photo = NULL
  /\ response.body[1].description = ""
  /\ GetAnswer(response.body[1].id).status = 200
  /\ GetAnswer(response.body[1].id).body[1].description = ""

\* no two records hold the same photo
ExclusivePhotos ==
  \A a, b \in Records : a.photo # NULL /\ a.photo = b.photo => a.id = b.id

\* C16: no two records hold the same photo, and an upload is never written
\* over a file that a record references
C16_PhotoExclusive ==
  [][/\ ExclusivePhotos'
     /\ \A r \in Slots :
          (UploadSingle(r) \/ UploadSameName(r)) /\ req'[r].file # NULL =>
            \A rec \in Records : rec.photo # req'[r].file]_vars

\* what a request can see: the records and, of the photos they reference, the
\* ones whose file is in the cache directory
Visible == [records |-> Records, photos |-> {rec.photo : rec \in Records} \cap files]

\* C17: a step that leaves its request in flight (it ends at an await and
\* answers nothing) leaves what requests can see as it was
C17_NoPartialChangeVisible ==
  [][response' = NoReply => Visible' = Visible]_vars

\* a Create was answered 201, no Delete of its item was answered 200, and the
\* stored document lacks the item
LostUpdate == \E id \in createdIds \ deletedIds : RecordsOf(id) = {}

\* C18 as stated: main.js gets to a state where requests reported success and
\* the document lacks the change of one of them
C18_LostUpdateReachable == <>LostUpdate

\* C18: in main.js a handler reads data.json, changes it and writes it in one
\* step of the event loop, so no change is lost: an item whose Create succeeded
\* stays in the document until a Delete of it succeeds, and a step that
\* answers success writes the item it answers with and changes or removes no
\* more than one record of the document it found
C18_NoLostUpdate ==
  [][/\ ~LostUpdate'
     /\ response'.status \in {200, 201} =>
          /\ Cardinality(Records \ Records') <= 1
          /\ Cardinality(Records' \ Records) <= 1
          /\ response'.op \in {"register", "update", "putPhoto"} =>
               response'.body[1] \in Records'
          /\ response'.op = "delete" => Records' \subseteq Records]_vars

\* a Create has just succeeded while another request, accepted before it ran,
\* waits for its handler, and both items created so far are in the document
C18_Witness ==
  /\ backend = "file"
  /\ response.op = "register" /\ response.status = 201
  /\ \E s \in Slots : req[s].op = "putPhoto" /\ req[s].pc = "handler"
  /\ Cardinality(createdIds) = 2 /\ deletedIds = {}
  /\ \A id \in createdIds : RecordsOf(id) # {}

\* C19: when Create persists a record with a photo, the file is already in the
\* cache directory and the record is new; when the upload of a Create fails,
\* the answer is an error and no record is persisted; so every record a Create
\* has just made readable references a file that is there
C19_SaveBeforePersist ==
  [][/\ \A r \in Slots :
          RegisterStep(r) /\ response'.status = 201
            /\ response'.body[1].photo # NULL =>
            /\ response'.body[1].photo \in files
            /\ response'.body[1] \notin Records
            /\ response'.body[1] \in Records'
            /\ response'.body[1].photo \in files'
     /\ UploadFails("register") =>
          response'.status = 500 /\ Records' = Records /\ files' = files]_vars

\* a Create with a photo has just succeeded: record and file are there
C19_Witness ==
  /\ response.op = "register" /\ response.status = 201
  /\ response.body[1].photo # NULL
  /\ response.body[1] \in Records
  /\ response.body[1].photo \in files

\* C20: connectWithRetry returns, whatever the outcomes of its attempts; it
\* makes no more than maxRetries attempts; an attempt that succeeds is the
\* last thing it does; it waits retryDelay once between two attempts and at no
\* other time, so never after the attempt that was the last
C20_ConnectTerminates ==
  /\ <>(connect.pc = "done")
  /\ [](connect.attempts <= maxRetries)
  /\ [](connect.pc = "setTimeout" => connect.retries < maxRetries)
  /\ [](connect.pc = "done" => connect.waited = retryDelay * (connect.attempts - 1))
  /\ [][/\ GetConnection(TRUE, "") =>
            connect'.pc = "done" /\ connect'.waited = connect.waited
        /\ connect.pc = "done" => connect' = connect
        /\ connect'.waited # connect.waited =>
             /\ connect'.waited = connect.waited + retryDelay
             /\ connect'.pc = "getConnection"
             /\ connect'.attempts = connect.attempts]_vars

\* connectWithRetry has given up after maxRetries rejected attempts and
\* maxRetries - 1 waits
C20_Witness ==
  /\ connect.pc = "done"
  /\ connect.retries = maxRetries /\ connect.attempts = maxRetries
  /\ connect.waited = retryDelay * (maxRetries - 1)
  /\ connect.console[Len(connect.console)].text = "MySQL error"

\* C21: in part_000, whatever a concurrent Delete does, an Update or a
\* ReplacePhoto that answers 200 answers with a record that is in the table
\* when the answer is sent; so it does not answer 200 for an item that was
\* deleted after its existence test
C21_SuccessCarriesStoredRecord ==
  [][\A r \in Slots :
       (PutInventoryRespond(r, TRUE) \/ PutPhotoRespond(r, TRUE))
         /\ response'.status = 200 =>
         /\ Len(response'.body) = 1
         /\ \A k \in 1..Len(response'.body) :
              response'.body[k] \in items' /\ response'.body[k].id = req[r].id]_vars

\* C22: in part_000, however Deletes of one identifier interleave, a Delete
\* answers 200 only if no Delete of that identifier has answered 200 before;
\* a Delete of an identifier whose Delete has answered 200 is answered 404
C22_OneDeleteSucceeds ==
  [][\A r \in Slots :
       /\ DeleteUnlink(r) => req[r].id \notin deletedIds
       /\ \A id \in deletedIds :
            DeleteSelect(r, id, TRUE) => response'.status = 404]_vars

\* the step keeps the files, the identifiers in the store, and the identifier
\* and the photo of every record
UpdateFrame ==
  /\ files' = files
  /\ {rec.id : rec \in Records'} = {rec.id : rec \in Records}
  /\ \A rec \in Records :
       \E new \in Records' : new.id = rec.id /\ new.photo = rec.photo

\* C23: every step of an Update, whatever its answer, keeps the files, the
\* identifiers in the store and every record's identifier and photo, and
\* changes no record but the one with the identifier of the request
C23_UpdateFrame ==
  [][/\ backend = "file" /\ response'.op = "update" =>
          /\ UpdateFrame
          /\ \A rec \in Records \ Records' :
               response'.status = 200 /\ response'.body[1].id = rec.id
     /\ backend = "sql" /\ response'.op = "update" =>
          Records' = Records /\ files' = files
     /\ \A r \in Slots :
          /\ (\E ok \in BOOLEAN : PutInventoryUpdate(r, ok)) =>
               /\ UpdateFrame
               /\ \A rec \in Records \ Records' : rec.id = req[r].id
          /\ req[r].op = "idle" /\ req'[r].op = "update" =>
               Records' = Records /\ files' = files]_vars

\* an Update has just answered 200 with a name that only an Update gives,
\* while the store holds another record and a photo file
C23_Witness ==
  /\ response.op = "update" /\ response.status = 200
  /\ Len(response.body) = 1
  /\ response.body[1].inventory_name = "b"
  /\ response.body[1] \in Records
  /\ Cardinality(Records) = 2
  /\ files # {}

====
